---- MODULE Spec2Model ----
(***************************************************************************)
(* Model of relay8x (src/src/connect.rs): the 4-byte frame codec           *)
(* (Relay8xCmdSet::encode, Relay8x::check_response) and the device session *)
(* (Relay8x::init_device, set_relays, reset_relays, toggle_relays) talking *)
(* to a serial port.                                                       *)
(*                                                                         *)
(* Bytes are naturals in 0..255.  Option<T> is a sequence of length 0      *)
(* (None) or 1 (Some).  A Rust panic is the outcome "panic".  The build    *)
(* decides whether u8/i32 arithmetic overflow panics (overflow checks on,  *)
(* the debug profile) or wraps (off, the release profile): the flag        *)
(* overflow_checks is chosen once and never changes.                       *)
(***************************************************************************)
EXTENDS Integers, Sequences, FiniteSets, TLC

VARIABLES
    overflow_checks, \* build profile: TRUE = arithmetic overflow panics
    start_address,   \* Relay8x.start_address
    op,              \* the session method being executed
    pc,              \* position inside that method
    cards,           \* argument `cards` of the running method
    numbers,         \* argument `numbers` of the running method
    idx,             \* 1-based position of the for loop in `cards`
    cmd,             \* local BytesMut `cmd`
    sent_cmd,        \* local `sent_cmd` (clone of cmd after the write)
    resp,            \* local BytesMut `resp` of init_device
    io,              \* what the port has seen during the running method
    result,          \* how the method ended
    t_kind,          \* codec harness: which pure function is applied
    t_args,          \* codec harness: its inputs
    t_ret            \* codec harness: its output

vars == <<overflow_checks, start_address, op, pc, cards, numbers, idx, cmd,
          sent_cmd, resp, io, result, t_kind, t_args, t_ret>>

session_vars == <<start_address, op, pc, cards, numbers, idx, cmd, sent_cmd,
                  resp, io, result>>

harness_vars == <<t_kind, t_args, t_ret>>

----------------------------------------------------------------------------
(* Bounds of the model.                                                    *)

\* longest relay selector enumerated element by element
MaxRelays == 2
\* relay numbers 0..MaxRelayNo are tried (1..8 are the valid ones)
MaxRelayNo == 9
\* card offsets 0..MaxCardNo are tried by the codec harness
MaxCardNo == 2
\* longest card selector of a session call
MaxCards == 2
\* addresses 0..AddrSpan and 255-AddrSpan..255 are tried
AddrSpan == 1
\* response bytes 0..ByteSpan and 255-ByteSpan..255 are tried by the
\* check_response harness
ByteSpan == 1
\* most bytes one read of init_device delivers
MaxResp == 2

----------------------------------------------------------------------------
(* u8 arithmetic.                                                          *)

Bit(x, i) == (x \div (2 ^ i)) % 2

\* the u8 operator ^
Xor8(a, b) ==
    LET f[i \in 0..8] ==
            IF i = 8 THEN 0
            ELSE ((Bit(a, i) + Bit(b, i)) % 2) * (2 ^ i) + f[i + 1]
    IN  f[0]

\* the u8 operator |
Or8(a, b) ==
    LET f[i \in 0..8] ==
            IF i = 8 THEN 0
            ELSE (IF Bit(a, i) + Bit(b, i) > 0 THEN 1 ELSE 0) * (2 ^ i) + f[i + 1]
    IN  f[0]

\* the u8 operator !
Not8(a) == 255 - a

None == <<>>
Some(x) == <<x>>

\* slice.get(i).unwrap_or(d), i counted from 0 as in the source
GetOr(s, i, d) == IF i + 1 <= Len(s) THEN s[i + 1] ELSE d

----------------------------------------------------------------------------
(* Relay8xCmdSet: the command frame encoder.                               *)

Commands == {"Init", "Set", "Toggle", "Reset"}

cmd_byte_swapped(self) ==
    CASE self = "Init"   -> 1
      [] self = "Set"    -> 6
      [] self = "Toggle" -> 7
      [] self = "Reset"  -> 8

\* the literal `cmd` of each arm of encode
cmd_byte(self) ==
    CASE self = "Init"   -> 1
      [] self = "Set"    -> 6
      [] self = "Toggle" -> 8
      [] self = "Reset"  -> 7

checksummed_skip_first(x) ==
    LET f[i \in 0..Len(x)] == IF i <= 1 THEN 0 ELSE Xor8(f[i - 1], x[i])
    IN  f[Len(x)]

\* x.iter().fold(0u8, |checksum, elem| checksum ^ elem)
checksummed(x) ==
    LET f[i \in 0..Len(x)] == IF i = 0 THEN 0 ELSE Xor8(f[i - 1], x[i])
    IN  f[Len(x)]

\* address + card.unwrap_or(1) - 1 in u8, evaluated left to right: the sum
\* first, then the decrement.  Either step can leave 0..255; then the build
\* with overflow checks panics and the build without wraps.
addressed(address, card, oc) ==
    LET c   == IF card = None THEN 1 ELSE card[1]
        sum == address + c
        dec == (sum % 256) - 1
    IN  IF sum > 255 /\ oc THEN [panic |-> TRUE, val |-> 0]
        ELSE IF dec < 0 /\ oc THEN [panic |-> TRUE, val |-> 0]
        ELSE [panic |-> FALSE, val |-> dec % 256]

\* 1i32 << n (n below 32) cast to u8: the low 8 bits of the shifted one
shl_as_u8(n) == IF n >= 8 THEN 0 ELSE 2 ^ n

relay_bit_off_by_one(x, oc) ==
    [panic |-> FALSE, val |-> shl_as_u8(x % 32)]

\* (1 << (x-1)) as u8 for one selector element: x-1 is u8 arithmetic, the
\* literal 1 is an i32, so the shift amount must be below 32 (a build with
\* overflow checks panics otherwise, one without masks it to 5 bits), and
\* the cast keeps the low 8 bits.
relay_bit(x, oc) ==
    LET s == (x - 1) % 256
    IN  IF (x = 0 \/ s >= 32) /\ oc THEN [panic |-> TRUE, val |-> 0]
        ELSE [panic |-> FALSE, val |-> shl_as_u8(s % 32)]

\* vec.iter().rev().for_each(|x| relay_bin |= (1 << (x-1)) as u8)
relay_as_u8(vec, oc) ==
    LET n == Len(vec)
        \* f[k]: the accumulator after the last k elements of vec
        f[k \in 0..n] ==
            IF k = 0 THEN [panic |-> FALSE, val |-> 0]
            ELSE LET prev == f[k - 1]
                     b    == relay_bit(vec[n - k + 1], oc)
                 IN  IF prev.panic \/ b.panic THEN [panic |-> TRUE, val |-> 0]
                     ELSE [panic |-> FALSE, val |-> Or8(prev.val, b.val)]
    IN  f[n]

\* Relay8xCmdSet::encode(self, bytes, start_address, card, relays): appends
\* to `bytes`.  status is "Ok" (the function returned Ok(())) or "panic";
\* the function has no path that returns Err.
encode(self, bytes, address, card, relays, oc) ==
    IF self = "Init"
    THEN LET b3 == bytes \o <<cmd_byte(self), address, 0>>
         IN  [status |-> "Ok", bytes |-> Append(b3, checksummed(b3))]
    ELSE LET b1 == Append(bytes, cmd_byte(self))
             a  == addressed(address, card, oc)
         IN  IF a.panic THEN [status |-> "panic", bytes |-> b1]
             ELSE LET b2 == Append(b1, a.val)
                  IN  IF relays = None  \* relays.unwrap()
                      THEN [status |-> "panic", bytes |-> b2]
                      ELSE LET r == relay_as_u8(relays[1], oc)
                           IN  IF r.panic THEN [status |-> "panic", bytes |-> b2]
                               ELSE LET b3 == Append(b2, r.val)
                                    IN  [status |-> "Ok",
                                         bytes  |-> Append(b3, checksummed(b3))]

----------------------------------------------------------------------------
(* Relay8x::check_response.                                                *)

check_response_xor_first(msg, sent_msg) ==
    LET checker_byte  == GetOr(sent_msg, 0, 1)
        checked_bytes == GetOr(msg, 0, 1)
        resp_addr     == GetOr(msg, 1, 0)
        sent_addr     == GetOr(sent_msg, 1, 1)
    IN  IF checked_bytes # Not8(checker_byte) THEN "BadFirstByte"
        ELSE IF GetOr(msg, 3, 0) #
                Xor8(Xor8(GetOr(msg, 0, 1), GetOr(msg, 1, 0)), GetOr(msg, 2, 0))
             THEN "BadXor"
        ELSE IF resp_addr # sent_addr /\ sent_addr # 0 THEN "WrongAddress"
        ELSE "Ok"

check_response_no_broadcast(msg, sent_msg) ==
    LET checker_byte  == GetOr(sent_msg, 0, 1)
        checked_bytes == GetOr(msg, 0, 1)
        resp_addr     == GetOr(msg, 1, 0)
        sent_addr     == GetOr(sent_msg, 1, 1)
    IN  IF checked_bytes # Not8(checker_byte) THEN "BadFirstByte"
        ELSE IF resp_addr # sent_addr THEN "WrongAddress"
        ELSE IF GetOr(msg, 3, 0) #
                Xor8(Xor8(GetOr(msg, 0, 1), GetOr(msg, 1, 0)), GetOr(msg, 2, 0))
             THEN "BadXor"
        ELSE "Ok"

\* "Ok" for Ok(()), else which of the three Err returns was taken
check_response(msg, sent_msg) ==
    LET checker_byte  == GetOr(sent_msg, 0, 1)
        checked_bytes == GetOr(msg, 0, 1)
        resp_addr     == GetOr(msg, 1, 0)
        sent_addr     == GetOr(sent_msg, 1, 1)
    IN  IF checked_bytes # Not8(checker_byte) THEN "BadFirstByte"
        ELSE IF resp_addr # sent_addr /\ sent_addr # 0 THEN "WrongAddress"
        ELSE IF GetOr(msg, 3, 0) #
                Xor8(Xor8(GetOr(msg, 0, 1), GetOr(msg, 1, 0)), GetOr(msg, 2, 0))
             THEN "BadXor"
        ELSE "Ok"

----------------------------------------------------------------------------
(* Input domains.                                                          *)

SeqsUpTo(S, n) == UNION {[1..k -> S] : k \in 0..n}

Range(s) == {s[i] : i \in 1..Len(s)}

Reverse(s) == [i \in 1..Len(s) |-> s[Len(s) + 1 - i]]

AddrDom == (0..AddrSpan) \cup ((255 - AddrSpan)..255)

ByteDom == (0..ByteSpan) \cup ((255 - ByteSpan)..255)

RelayNos == 0..MaxRelayNo

ValidRelayNos == 1..8

\* the selector naming all eight relays, ascending and descending
FullAsc == [i \in 1..8 |-> i]

FullDesc == [i \in 1..8 |-> 9 - i]

\* selectors with every value in 1..8: the short ones and all eight relays
ValidSelectors == SeqsUpTo(ValidRelayNos, MaxRelays) \cup {FullAsc, FullDesc}

\* selectors handed to a single encode: short ones that may hold a value
\* outside 1..8, relays 1 and 3, and all eight
Selectors == SeqsUpTo(RelayNos, MaxRelays - 1) \cup {<<1, 3>>, FullAsc}

CardOpts == {None} \cup {Some(c) : c \in 0..MaxCardNo}

RelayOpts == {None} \cup {Some(v) : v \in Selectors}

\* one call of encode on a fresh buffer, as every caller in the source makes
EncodeInputs ==
    [self : Commands, bytes : {<<>>}, start_address : AddrDom,
     card : CardOpts, relays : RelayOpts]

\* two calls of encode that differ in the relay selector only
PairInputs ==
    UNION {
        {[self |-> c, start_address |-> a, card |-> Some(1), relays |-> s, relays2 |-> t] :
            c \in Commands \ {"Init"}, a \in {1},
            t \in SeqsUpTo(ValidRelayNos, 1) \cup {FullDesc, Reverse(s), s \o s}} :
        s \in ValidSelectors}

\* 4-byte frames handed to check_response
RespFrames == {<<a, b, c, d>> : a \in ByteDom, b \in ByteDom, c \in 0..ByteSpan, d \in ByteDom}

SentFrames == {<<a, b, c, d>> : a \in ByteDom, b \in ByteDom, c \in {0, 255}, d \in {0, 255}}

ValidateInputs == [msg : RespFrames, sent_msg : SentFrames]

----------------------------------------------------------------------------
(* The codec on its own: Init draws the inputs of one call, the action     *)
(* applies the function.  The session stays as constructed.                *)

SessionIdle ==
    /\ op = "none"
    /\ pc = "idle"
    /\ cards = <<>>
    /\ numbers = <<>>
    /\ idx = 0
    /\ cmd = <<>>
    /\ sent_cmd = <<>>
    /\ resp = <<>>
    /\ io = <<>>
    /\ result = "none"

InitCodec ==
    /\ overflow_checks \in BOOLEAN
    /\ start_address = 0
    /\ SessionIdle
    /\ t_ret = <<>>
    /\ \/ t_kind = "encode" /\ t_args \in EncodeInputs
       \/ t_kind = "pair" /\ t_args \in PairInputs
       \/ t_kind = "validate" /\ t_args \in ValidateInputs /\ overflow_checks

EncodeApply ==
    /\ t_kind = "encode" /\ t_ret = <<>>
    /\ t_ret' = <<encode(t_args.self, t_args.bytes, t_args.start_address,
                         t_args.card, t_args.relays, overflow_checks)>>
    /\ UNCHANGED <<overflow_checks, session_vars, t_kind, t_args>>

PairApply ==
    /\ t_kind = "pair" /\ t_ret = <<>>
    /\ LET enc(sel) == encode(t_args.self, <<>>, t_args.start_address,
                              t_args.card, Some(sel), overflow_checks)
       IN  t_ret' = <<[a  |-> enc(t_args.relays),
                       b  |-> enc(t_args.relays2),
                       ab |-> enc(t_args.relays \o t_args.relays2)]>>
    /\ UNCHANGED <<overflow_checks, session_vars, t_kind, t_args>>

ValidateApply ==
    /\ t_kind = "validate" /\ t_ret = <<>>
    /\ t_ret' = <<check_response(t_args.msg, t_args.sent_msg)>>
    /\ UNCHANGED <<overflow_checks, session_vars, t_kind, t_args>>

NextCodec == EncodeApply \/ PairApply \/ ValidateApply

SpecCodec == InitCodec /\ [][NextCodec]_vars

EncodeDone == t_kind = "encode" /\ t_ret # <<>>

PairDone == t_kind = "pair" /\ t_ret # <<>>

ValidateDone == t_kind = "validate" /\ t_ret # <<>>

\* bit by bit: z is the exclusive or of a, b and c
IsXor3(z, a, b, c) ==
    \A i \in 0..7 : Bit(z, i) = (Bit(a, i) + Bit(b, i) + Bit(c, i)) % 2

\* bit by bit: z is the complement of a
IsComplement(z, a) == \A i \in 0..7 : Bit(z, i) # Bit(a, i)

PopCount(x) == Cardinality({i \in 0..7 : Bit(x, i) = 1})

----------------------------------------------------------------------------
(* The device session.  One method runs at a time (the methods take        *)
(* &mut self); its steps are the calls it makes on the port, which can     *)
(* fail or deliver any bytes.                                              *)

RelayOps == {"set", "reset", "toggle"}

\* the command each method encodes
CmdOf(o) ==
    CASE o = "init"   -> "Init"
      [] o = "set"    -> "Set"
      [] o = "reset"  -> "Reset"
      [] o = "toggle" -> "Toggle"

\* base addresses of the sessions tried: the one that switches the address
\* check off, an ordinary one, and one whose second card is past 255
SessionAddrs == {0, 1, 254}

\* card selectors of a call
CardSelectors == SeqsUpTo({1, 2}, MaxCards)

\* relay selectors of a call: none, two valid relays, and the two nearest
\* values outside 1..8
SessionSelectors == {<<>>, <<1, 3>>, <<0>>, <<9>>}

\* bytes the cards send while init_device listens
InitBytes == {9, 11, 254}

\* most port events kept in io; a method on MaxCards cards makes 2*MaxCards
\* of them, only the read loop of init_device can make more, and its further
\* reads are not recorded
MaxIo == 2 * MaxCards

WriteEv(data, ok) == [kind |-> "write", data |-> data, ok |-> ok]

ReadEv(data, ok) == [kind |-> "read", data |-> data, ok |-> ok]

Record(log, ev) == IF Len(log) < MaxIo THEN Append(log, ev) ELSE log

\* what a read of a 4-byte buffer can deliver after `sent` was written: 1 to
\* 4 bytes, each either the byte a well-behaved card sends or a wrong one
Replies(sent) ==
    {<<a, b, c, (Xor8(Xor8(a, b), c) + e) % 256>> :
        a \in {Not8(sent[1]), sent[1]},
        b \in {sent[2], (sent[2] + 1) % 256},
        c \in {sent[3], Not8(sent[3])},
        e \in {0, 1}}

Deliveries(sent) == {SubSeq(r, 1, n) : r \in Replies(sent), n \in 1..4}

\* port.read(&mut buf[..]) delivering `data`: the first Len(data) bytes of
\* buf are overwritten, the rest and the length stay
ReadInto(buf, data) == data \o SubSeq(buf, Len(data) + 1, Len(buf))

Init ==
    /\ overflow_checks \in BOOLEAN
    /\ start_address \in SessionAddrs
    /\ SessionIdle
    /\ t_kind = "none"
    /\ t_args = <<>>
    /\ t_ret = <<>>

\* a method can be called when none is running
Callable == pc = "idle"

\* The method has returned Ok or Err: its locals are dropped and the caller
\* goes on.  After a panic the process is gone and nothing follows.
Return ==
    /\ pc = "done"
    /\ result # "panic"
    /\ op' = "none"
    /\ pc' = "idle"
    /\ cards' = <<>>
    /\ numbers' = <<>>
    /\ idx' = 0
    /\ cmd' = <<>>
    /\ sent_cmd' = <<>>
    /\ resp' = <<>>
    /\ io' = <<>>
    /\ result' = "none"
    /\ UNCHANGED <<overflow_checks, start_address, harness_vars>>

\* entry of init_device
CallInit ==
    /\ Callable
    /\ op' = "init"
    /\ pc' = "configure"
    /\ cards' = <<>>
    /\ numbers' = <<>>
    /\ idx' = 0
    /\ cmd' = <<>>
    /\ sent_cmd' = <<>>
    /\ resp' = <<>>
    /\ io' = <<>>
    /\ result' = "none"
    /\ UNCHANGED <<overflow_checks, start_address, harness_vars>>

\* Relay8x::configure_device(port)?
Configure ==
    /\ pc = "configure"
    /\ \/ pc' = "encode" /\ UNCHANGED result
       \/ pc' = "done" /\ result' = "Err"
    /\ UNCHANGED <<overflow_checks, start_address, op, cards, numbers, idx,
                   cmd, sent_cmd, resp, io, harness_vars>>

\* init_device: cmd = BytesMut::with_capacity(4); encode(Init, .., None, None)?
InitEncode ==
    /\ pc = "encode"
    /\ LET e == encode("Init", cmd, start_address, None, None, overflow_checks)
       IN  /\ cmd' = e.bytes
           /\ IF e.status = "Ok"
              THEN pc' = "write" /\ UNCHANGED result
              ELSE pc' = "done" /\ result' = e.status
    /\ UNCHANGED <<overflow_checks, start_address, op, cards, numbers, idx,
                   sent_cmd, resp, io, harness_vars>>

\* entry of set_relays, reset_relays, toggle_relays
CallRelays(o, cs, ns) ==
    /\ Callable
    /\ op' = o
    /\ pc' = "loop"
    /\ cards' = cs
    /\ numbers' = ns
    /\ idx' = 1
    /\ cmd' = <<>>
    /\ sent_cmd' = <<>>
    /\ resp' = <<>>
    /\ io' = <<>>
    /\ result' = "none"
    /\ UNCHANGED <<overflow_checks, start_address, harness_vars>>

LoopEncodeBumpsAddress ==
    /\ pc = "loop"
    /\ idx <= Len(cards)
    /\ LET e == encode(CmdOf(op), cmd, start_address, Some(cards[idx]),
                       Some(numbers), overflow_checks)
       IN  /\ cmd' = e.bytes
           /\ IF e.status = "Ok"
              THEN pc' = "write" /\ start_address' = e.bytes[2] /\ UNCHANGED result
              ELSE pc' = "done" /\ result' = e.status /\ UNCHANGED start_address
    /\ UNCHANGED <<overflow_checks, op, cards, numbers, idx,
                   sent_cmd, resp, io, harness_vars>>

\* for &card in cards.iter() { encode(.., Some(card), Some(&numbers))?; ..
LoopEncode ==
    /\ pc = "loop"
    /\ idx <= Len(cards)
    /\ LET e == encode(CmdOf(op), cmd, start_address, Some(cards[idx]),
                       Some(numbers), overflow_checks)
       IN  /\ cmd' = e.bytes
           /\ IF e.status = "Ok"
              THEN pc' = "write" /\ UNCHANGED result
              ELSE pc' = "done" /\ result' = e.status
    /\ UNCHANGED <<overflow_checks, start_address, op, cards, numbers, idx,
                   sent_cmd, resp, io, harness_vars>>

\* the for loop is exhausted: Ok(cmd)
LoopExit ==
    /\ pc = "loop"
    /\ idx > Len(cards)
    /\ pc' = "done"
    /\ result' = "Ok"
    /\ UNCHANGED <<overflow_checks, start_address, op, cards, numbers, idx,
                   cmd, sent_cmd, resp, io, harness_vars>>

\* port.write(&cmd[..])?; in the relay methods followed by
\* let sent_cmd = cmd.clone(), in init_device by let mut resp = BytesMut::new()
Write ==
    /\ pc = "write"
    /\ \E ok \in BOOLEAN :
        /\ io' = Record(io, WriteEv(cmd, ok))
        /\ IF ok
           THEN /\ pc' = IF op = "init" THEN "init_read" ELSE "read"
                /\ sent_cmd' = IF op = "init" THEN sent_cmd ELSE cmd
                /\ UNCHANGED result
           ELSE /\ pc' = "done"
                /\ result' = "Err"
                /\ UNCHANGED sent_cmd
    /\ UNCHANGED <<overflow_checks, start_address, op, cards, numbers, idx,
                   cmd, resp, harness_vars>>

\* port.read(&mut cmd[..])? of the relay methods
Read ==
    /\ pc = "read"
    /\ \/ /\ io' = Record(io, ReadEv(<<>>, FALSE))
          /\ pc' = "done"
          /\ result' = "Err"
          /\ UNCHANGED cmd
       \/ \E data \in Deliveries(sent_cmd) :
            /\ io' = Record(io, ReadEv(data, TRUE))
            /\ cmd' = ReadInto(cmd, data)
            /\ pc' = "check"
            /\ UNCHANGED result
    /\ UNCHANGED <<overflow_checks, start_address, op, cards, numbers, idx,
                   sent_cmd, resp, harness_vars>>

CheckNoClear ==
    /\ pc = "check"
    /\ IF check_response(cmd, sent_cmd) = "Ok"
       THEN /\ idx' = idx + 1
            /\ pc' = "loop"
            /\ UNCHANGED result
       ELSE /\ pc' = "done"
            /\ result' = "Err"
            /\ UNCHANGED idx
    /\ UNCHANGED <<overflow_checks, start_address, op, cards, numbers, cmd,
                   sent_cmd, resp, io, harness_vars>>

CheckRetry ==
    /\ pc = "check"
    /\ cmd' = <<>>
    /\ idx' = IF check_response(cmd, sent_cmd) = "Ok" THEN idx + 1 ELSE idx
    /\ pc' = "loop"
    /\ UNCHANGED <<overflow_checks, start_address, op, cards, numbers,
                   sent_cmd, resp, io, result, harness_vars>>

CheckBestEffort ==
    /\ pc = "check"
    /\ IF check_response(cmd, sent_cmd) = "Ok"
       THEN UNCHANGED result
       ELSE result' = "Err"
    /\ cmd' = <<>>
    /\ idx' = idx + 1
    /\ pc' = "loop"
    /\ UNCHANGED <<overflow_checks, start_address, op, cards, numbers,
                   sent_cmd, resp, io, harness_vars>>

\* Relay8x::check_response(&cmd, &sent_cmd)?; cmd.clear(); } and the loop
\* goes to the next card
Check ==
    /\ pc = "check"
    /\ IF check_response(cmd, sent_cmd) = "Ok"
       THEN /\ cmd' = <<>>
            /\ idx' = idx + 1
            /\ pc' = "loop"
            /\ UNCHANGED result
       ELSE /\ pc' = "done"
            /\ result' = "Err"
            /\ UNCHANGED <<cmd, idx>>
    /\ UNCHANGED <<overflow_checks, start_address, op, cards, numbers,
                   sent_cmd, resp, io, harness_vars>>

\* resp.put_u8(0).  The buffer grows by one byte per iteration without
\* limit; the model keeps its first MaxResp bytes.  A read delivers at most
\* MaxResp bytes, so every byte behind them is a 0 that put_u8 wrote, and
\* resp.contains(&9) is decided by the bytes kept.
Grown(r) == IF Len(r) < MaxResp THEN Append(r, 0) ELSE r

InitReadValidates ==
    /\ pc = "init_read"
    /\ \/ /\ resp' = Grown(resp)
          /\ io' = Record(io, ReadEv(<<>>, FALSE))
          /\ pc' = "done"
          /\ result' = "Err"
       \/ \E n \in 1..Len(Grown(resp)) : \E data \in [1..n -> InitBytes] :
            /\ resp' = ReadInto(Grown(resp), data)
            /\ io' = Record(io, ReadEv(<<>>, TRUE))
            /\ IF 9 \in Range(resp')
               THEN /\ pc' = "done"
                    /\ result' = IF check_response(resp', cmd) = "Ok" THEN "Ok" ELSE "Err"
               ELSE pc' = "init_read" /\ UNCHANGED result
    /\ UNCHANGED <<overflow_checks, start_address, op, cards, numbers, idx,
                   cmd, sent_cmd, harness_vars>>

InitReadReturnsResp ==
    /\ pc = "init_read"
    /\ \/ /\ resp' = Grown(resp)
          /\ io' = Record(io, ReadEv(<<>>, FALSE))
          /\ pc' = "done"
          /\ result' = "Err"
          /\ UNCHANGED cmd
       \/ \E n \in 1..Len(Grown(resp)) : \E data \in [1..n -> InitBytes] :
            /\ resp' = ReadInto(Grown(resp), data)
            /\ io' = Record(io, ReadEv(<<>>, TRUE))
            /\ IF 9 \in Range(resp')
               THEN pc' = "done" /\ result' = "Ok" /\ cmd' = resp'
               ELSE pc' = "init_read" /\ UNCHANGED <<result, cmd>>
    /\ UNCHANGED <<overflow_checks, start_address, op, cards, numbers, idx,
                   sent_cmd, harness_vars>>

\* one iteration of the loop of init_device:
\* resp.put_u8(0); port.read(&mut resp[..])?; if resp.contains(&9) { break; }
\* and, after the break, Ok(cmd)
InitRead ==
    /\ pc = "init_read"
    /\ \/ /\ resp' = Grown(resp)
          /\ io' = Record(io, ReadEv(<<>>, FALSE))
          /\ pc' = "done"
          /\ result' = "Err"
       \/ \E n \in 1..Len(Grown(resp)) : \E data \in [1..n -> InitBytes] :
            /\ resp' = ReadInto(Grown(resp), data)
            /\ io' = Record(io, ReadEv(<<>>, TRUE))
            /\ IF 9 \in Range(resp')
               THEN pc' = "done" /\ result' = "Ok"
               ELSE pc' = "init_read" /\ UNCHANGED result
    /\ UNCHANGED <<overflow_checks, start_address, op, cards, numbers, idx,
                   cmd, sent_cmd, harness_vars>>

Next ==
    \/ CallInit
    \/ Configure
    \/ InitEncode
    \/ \E o \in RelayOps, cs \in CardSelectors, ns \in SessionSelectors :
            CallRelays(o, cs, ns)
    \/ LoopEncode
    \/ LoopExit
    \/ Write
    \/ Read
    \/ Check
    \/ InitRead
    \/ Return

Spec == Init /\ [][Next]_vars

\* A session on which only init_device is called.
NextInit ==
    \/ CallInit
    \/ Configure
    \/ InitEncode
    \/ Write
    \/ InitRead
    \/ Return

\* The method that is running always takes its next step: the thread is
\* never suspended for good, and every port call returns (a read that gets
\* nothing within the timeout returns an error).
FairInitSpec == Init /\ [][NextInit]_vars /\ WF_vars(NextInit)

----------------------------------------------------------------------------
(* Claims about the codec, checked under SpecCodec.                        *)

\* C1: check_response on two 4-byte frames returns Ok exactly when
\* response[0] is the bitwise complement of sent[0], and sent[1] = 0 or
\* response[1] = sent[1], and response[3] is the XOR of response[0..2];
\* sent[2] and sent[3] do not change the outcome.
C1_ValidateIff ==
    ValidateDone =>
        LET r == t_args.msg
            s == t_args.sent_msg
        IN  /\ (t_ret[1] = "Ok") <=>
                    /\ IsComplement(r[1], s[1])
                    /\ (s[2] = 0 \/ r[2] = s[2])
                    /\ IsXor3(r[4], r[1], r[2], r[3])
            /\ \A c \in {0, Not8(s[3])}, d \in {0, Not8(s[4])} :
                    (check_response(r, <<s[1], s[2], c, d>>) = "Ok") <=> (t_ret[1] = "Ok")

\* C1 witness: a response to a frame sent to address 0 is accepted although
\* its address byte differs.
C1_Witness ==
    /\ ValidateDone
    /\ t_ret[1] = "Ok"
    /\ t_args.sent_msg[2] = 0
    /\ t_args.msg[2] # 0
    /\ t_args.sent_msg[4] # 0

\* C2: whenever encode succeeds the frame's 4th byte is the XOR of exactly
\* the three bytes before it (opcode, address, data).
C2_Checksum ==
    (EncodeDone /\ t_ret[1].status = "Ok") =>
        LET b == t_ret[1].bytes
        IN  /\ Len(b) = 4
            /\ IsXor3(b[4], b[1], b[2], b[3])

\* C2 witness: a Toggle frame with a non-zero address and data byte.
C2_Witness ==
    /\ EncodeDone
    /\ t_ret[1].status = "Ok"
    /\ t_args.self = "Toggle"
    /\ t_ret[1].bytes[2] # 0
    /\ t_ret[1].bytes[3] # 0

SpecOpcode(c) ==
    CASE c = "Init" -> 1 [] c = "Set" -> 6 [] c = "Reset" -> 7 [] c = "Toggle" -> 8

\* C3: encode emits exactly 4 bytes, the first the opcode 1/6/7/8 of
\* Init/Set/Reset/Toggle, the third 0 for Init; Init with base address 1
\* gives [1,1,0,0] and Set with base 1, card 1, relays {1,3} gives [6,1,5,2].
C3_FrameLayout ==
    (EncodeDone /\ t_ret[1].status = "Ok") =>
        LET b == t_ret[1].bytes
        IN  /\ Len(b) = 4
            /\ b[1] = SpecOpcode(t_args.self)
            /\ t_args.self = "Init" => (b[2] = t_args.start_address /\ b[3] = 0)
            /\ (t_args.self = "Init" /\ t_args.start_address = 1) => b = <<1, 1, 0, 0>>
            /\ (/\ t_args.self = "Set"
                /\ t_args.start_address = 1
                /\ t_args.card = Some(1)
                /\ t_args.relays = Some(<<1, 3>>)) => b = <<6, 1, 5, 2>>

\* C3 witness: the Reset opcode and the Set example have both been encoded.
C3_Witness ==
    /\ EncodeDone
    /\ t_ret[1].status = "Ok"
    /\ \/ t_args.self = "Reset"
       \/ /\ t_args.self = "Set"
          /\ t_args.start_address = 1
          /\ t_args.card = Some(1)
          /\ t_args.relays = Some(<<1, 3>>)

\* C4: for selectors S, T with all values in 1..8 the data byte has bit n-1
\* set exactly when n is in S, so it has |S| bits set; the byte of S followed
\* by T is the OR of the two bytes; the empty selector gives 0 and all eight
\* relays give 0xFF; selectors with the same elements, in any order and with
\* any duplicates, give the same frame.
C4_RelayMask ==
    PairDone =>
        LET S  == t_args.relays
            T  == t_args.relays2
            fa == t_ret[1].a
            fb == t_ret[1].b
            fc == t_ret[1].ab
        IN  /\ fa.status = "Ok" /\ fb.status = "Ok" /\ fc.status = "Ok"
            /\ \A n \in 1..8 : (Bit(fa.bytes[3], n - 1) = 1) <=> (n \in Range(S))
            /\ PopCount(fa.bytes[3]) = Cardinality(Range(S))
            /\ \A i \in 0..7 :
                    (Bit(fc.bytes[3], i) = 1) <=>
                        (Bit(fa.bytes[3], i) = 1 \/ Bit(fb.bytes[3], i) = 1)
            /\ S = <<>> => fa.bytes[3] = 0
            /\ Range(S) = 1..8 => fa.bytes[3] = 255
            /\ Range(S) = Range(T) => fa.bytes = fb.bytes

\* C4 witness: a selector with two different relays, the second one relay 8,
\* was encoded next to its reversal.
C4_Witness ==
    /\ PairDone
    /\ Len(t_args.relays) = 2
    /\ t_args.relays[1] # t_args.relays[2]
    /\ t_args.relays[2] = 8
    /\ t_args.relays2 = Reverse(t_args.relays)

InRangeSelector(r) == r # None /\ Range(r[1]) \subseteq ValidRelayNos

CardOffset(c) == IF c = None THEN 1 ELSE c[1]

\* C5 (as claimed): for base address A and card offset c >= 1 with
\* A + c - 1 <= 255, encoding Set, Reset or Toggle succeeds with address
\* byte A + c - 1, without 8-bit overflow on the way.
C5_AddressArithmetic ==
    (/\ EncodeDone
     /\ t_args.self # "Init"
     /\ InRangeSelector(t_args.relays)
     /\ CardOffset(t_args.card) >= 1
     /\ t_args.start_address + CardOffset(t_args.card) - 1 <= 255) =>
        /\ t_ret[1].status = "Ok"
        /\ t_ret[1].bytes[2] = t_args.start_address + CardOffset(t_args.card) - 1

\* C6 (as claimed): encoding Set, Reset or Toggle with a selector holding a
\* value outside 1..8 fails with an error and produces no frame.
C6_InvalidRelayRejected ==
    (/\ EncodeDone
     /\ t_args.self # "Init"
     /\ t_args.relays # None
     /\ ~ InRangeSelector(t_args.relays)) =>
        /\ t_ret[1].status = "Err"
        /\ Len(t_ret[1].bytes) < 4

\* C7 (as claimed): a non-Init command without a relay selector returns an
\* error value, not a crash; an empty selector yields a frame with data 0.
C7_MissingSelector ==
    (EncodeDone /\ t_args.self # "Init") =>
        /\ t_args.relays = None => t_ret[1].status = "Err"
        /\ (/\ t_args.relays = Some(<<>>)
            /\ t_args.card = Some(1)
            /\ t_args.start_address < 255) =>
                (t_ret[1].status = "Ok" /\ t_ret[1].bytes[3] = 0)

----------------------------------------------------------------------------
(* Claims about the session, checked under Spec and FairSpec.              *)

WritesOf(log) == SelectSeq(log, LAMBDA e : e.kind = "write")

ReadsOf(log) == SelectSeq(log, LAMBDA e : e.kind = "read")

RelayCallEnded == op \in RelayOps /\ pc = "done"

\* C8 (as claimed): a set, reset or toggle call with an empty card selector
\* writes exactly one frame, addressed to start_address, and reads its reply.
C8_EmptyCardsBaseCard ==
    (RelayCallEnded /\ cards = <<>> /\ result = "Ok") =>
        /\ Len(WritesOf(io)) = 1
        /\ WritesOf(io)[1].data[2] = start_address
        /\ Len(ReadsOf(io)) = 1

\* C9: set, reset and toggle are fail-fast.  When a call has failed it has
\* returned; the port has seen a write and a read for each card before the
\* failing one and, for the failing card idx, one write and at most one
\* read; nothing was written or read for a later card, and nothing is
\* written or read afterwards: the next step is the return to the caller.
C9_FailFast ==
    /\ [](  (op \in RelayOps /\ result = "Err") =>
                /\ pc = "done"
                /\ idx \in 1..Len(cards)
                /\ Len(WritesOf(io)) = idx
                /\ Len(io) \in {2 * idx - 1, 2 * idx}
                /\ \A k \in 1..Len(io) :
                        /\ io[k].kind = IF k % 2 = 1 THEN "write" ELSE "read"
                        /\ k < Len(io) => io[k].ok
                /\ (io[Len(io)].ok) => (Len(io) = 2 * idx /\ check_response(cmd, sent_cmd) # "Ok"))
    /\ [][ (op \in RelayOps /\ result = "Err") =>
                (io' = io \/ (pc' = "idle" /\ io' = <<>>)) ]_vars

\* C9 witness: a call on two cards has failed at the first card after its
\* reply was read, and the second card was never addressed.
C9_Witness ==
    /\ RelayCallEnded
    /\ result = "Err"
    /\ Len(cards) = 2
    /\ idx = 1
    /\ Len(io) = 2
    /\ io[2].ok

\* C10 (as claimed): init_device terminates in every execution.
C10_InitTerminates == (op = "init" /\ pc = "configure") ~> (op = "init" /\ pc = "done")

InitCallEnded == op = "init" /\ pc = "done"

C12_InitReturnsAck ==
    (InitCallEnded /\ result = "Ok") =>
        /\ Len(cmd) = 4
        /\ cmd[1] = 254 /\ cmd[2] = start_address /\ cmd[3] = 11
        /\ IsXor3(cmd[4], 254, start_address, 11)

\* C13: no step of init_device, set_relays, reset_relays or toggle_relays,
\* whether the method succeeds or fails, changes start_address.
C13_BaseAddressImmutable == [][start_address' = start_address]_vars

\* C13 witness: a relay method has failed after writing and reading on a
\* call that addressed the second card.
C13_Witness ==
    /\ RelayCallEnded
    /\ result = "Err"
    /\ Len(io) >= 2
    /\ 2 \in Range(cards)

LastEv == io[Len(io)]

\* C14 (as claimed): in set, reset and toggle the frame handed to
\* check_response is 4 bytes that were all received in reply to the frame
\* just sent, and a card's step never succeeds on a read that delivered fewer
\* than 4 bytes.
C14_ValidatedFrameReceived ==
    /\ (op \in RelayOps /\ pc = "check") =>
            /\ LastEv.kind = "read"
            /\ Len(LastEv.data) = 4
            /\ cmd = LastEv.data
    /\ (op \in RelayOps /\ pc = "loop" /\ idx > 1) =>
            /\ LastEv.kind = "read"
            /\ Len(LastEv.data) = 4

\* C15: in set, reset and toggle writes and reads alternate strictly,
\* starting with a write; a call over cards c1..ck that returns Ok has made
\* exactly k write/read pairs, in the order of the card selector, the i-th
\* frame carrying the method's opcode and the address start_address + ci - 1.
C15_SequentialPairs ==
    (op \in RelayOps) =>
        /\ \A k \in 1..Len(io) : io[k].kind = IF k % 2 = 1 THEN "write" ELSE "read"
        /\ (pc = "done" /\ result = "Ok") =>
                /\ Len(io) = 2 * Len(cards)
                /\ \A i \in 1..Len(cards) :
                        /\ io[2 * i - 1].ok /\ io[2 * i].ok
                        /\ Len(io[2 * i - 1].data) = 4
                        /\ io[2 * i - 1].data[1] = SpecOpcode(CmdOf(op))
                        /\ io[2 * i - 1].data[2] = start_address + cards[i] - 1

\* C15 witness: a call over two different cards has returned Ok.
C15_Witness ==
    /\ RelayCallEnded
    /\ result = "Ok"
    /\ Len(cards) = 2
    /\ cards[1] # cards[2]

\* C16: check_response checks in a fixed order and reports the first stage
\* that fails: a wrong opcode complement whatever the address and checksum;
\* otherwise a wrong address (sent address not 0) whatever the checksum; a
\* response whose only fault is its 4th byte fails on the checksum.
C16_ValidateOrder ==
    ValidateDone =>
        LET r      == t_args.msg
            s      == t_args.sent_msg
            opOk   == IsComplement(r[1], s[1])
            addrOk == s[2] = 0 \/ r[2] = s[2]
            xorOk  == IsXor3(r[4], r[1], r[2], r[3])
        IN  /\ ~ opOk => t_ret[1] = "BadFirstByte"
            /\ (opOk /\ ~ addrOk) => t_ret[1] = "WrongAddress"
            /\ (opOk /\ addrOk /\ ~ xorOk) => t_ret[1] = "BadXor"

\* C16 witness: a response with the right opcode, a wrong address and a
\* wrong checksum was reported as an address mismatch.
C16_Witness ==
    /\ ValidateDone
    /\ t_ret[1] = "WrongAddress"
    /\ ~ IsXor3(t_args.msg[4], t_args.msg[1], t_args.msg[2], t_args.msg[3])

\* C17 (as claimed): a set, reset or toggle call whose relay selector holds
\* a value outside 1..8 returns an error, and nothing is written to or read
\* from the port for any card.
C17_InvalidRelayNoIo ==
    (op \in RelayOps /\ cards # <<>> /\ ~ (Range(numbers) \subseteq ValidRelayNos)) =>
        /\ io = <<>>
        /\ pc = "done" => result = "Err"

\* C18: init_device returns Ok only after its frame was written and a read
\* has put a 9 into resp; the read that brings a 9 ends the method with Ok
\* whatever else resp holds (no opcode, address or checksum check); a read
\* that fails before that ends it with the error.
C18_InitSentinelOnly ==
    /\ []( (InitCallEnded /\ result = "Ok") =>
                /\ io[1] = WriteEv(cmd, TRUE)
                /\ \E k \in 2..Len(io) : io[k].kind = "read" /\ io[k].ok
                /\ 9 \in Range(resp) )
    /\ [][ (pc = "init_read") =>
                /\ (9 \in Range(resp')) => (pc' = "done" /\ result' = "Ok")
                /\ (pc' = "done" /\ 9 \notin Range(resp')) => result' = "Err"
                /\ cmd' = cmd ]_vars

\* C18 witness: init_device has succeeded on a response that is no
\* acknowledgement frame: resp does not start with the complement of 1.
C18_Witness ==
    /\ InitCallEnded
    /\ result = "Ok"
    /\ resp[1] # 254

\* the card the k-th port event of a relay method belongs to
CardOfEv(k) == cards[(k + 1) \div 2]

\* C19: with relay numbers in 1..8, every buffer handed to port.write is one
\* command frame of 4 bytes whose 4th byte is the XOR of the first three:
\* the opcode of the method, the address of the card being served (the base
\* address for init_device) and the data byte of this call, with no byte of
\* an earlier card's command or response in it.
C19_WrittenFramesWellFormed ==
    (op \in RelayOps \cup {"init"} /\ Range(numbers) \subseteq ValidRelayNos) =>
        \A k \in 1..Len(io) :
            io[k].kind = "write" =>
                LET f == io[k].data
                IN  /\ Len(f) = 4
                    /\ IsXor3(f[4], f[1], f[2], f[3])
                    /\ f[1] = SpecOpcode(CmdOf(op))
                    /\ f[2] = IF op = "init" THEN start_address
                              ELSE (start_address + CardOfEv(k) - 1) % 256
                    /\ \A n \in 1..8 :
                            (Bit(f[3], n - 1) = 1) <=> (op # "init" /\ n \in Range(numbers))

\* C19 witness: the frame of a second card was written after the first
\* card's reply had been read into the command buffer and accepted.
C19_Witness ==
    /\ op \in RelayOps
    /\ numbers = <<1, 3>>
    /\ Len(io) >= 3
    /\ io[3].kind = "write"
    /\ io[3].ok

====
